---- MODULE Spec2Model ----
(***************************************************************************)
(* duckJS (src/src/duck-js.ts): signal, computed, effect and the global    *)
(* EffectStack, as a small-step machine.  JavaScript is single threaded,   *)
(* so the machine has one call stack (frames); each action is one          *)
(* statement of the function whose frame is on top, or one call made by    *)
(* the top-level program when the call stack is empty.                     *)
(***************************************************************************)
EXTENDS Integers, Sequences, FiniteSets, TLC

\* Number of calls the top-level program makes.
MaxOps == 4

\* Every signal of the programs is constructed with this value (signal(1)).
InitialValue == 1

\* `let cached: T` before the first computation, and peek() of an empty stack.
undefined == -999
noEffect == "undefined"

\* What the top-level program receives from a call that raised an error.
thrown == -998

Signals == {"a", "b"}
Computeds == {"lengthSum", "double", "c", "d", "plus2", "diff", "checked"}
Effects == {"E1", "E2", "E3", "E4", "E5", "E6", "E7", "E8", "E9", "E10", "E11", "E12",
            "E13"}
Cells == Signals \cup Computeds

\* The components mounted by createApp.  The renderApp closure createApp
\* makes for a component is named after the component.
Views == {"App", "Counter", "Ducks", "Details"}

\* The programs run: each is the cells and effect callbacks one test
\* constructs, and the values its top-level code writes.  A callback is named
\* after its effect, a computed's markStale closure after the computed.
Programs ==
  { [signals |-> {"a"}, computeds |-> {}, effects |-> {"E1", "E2", "E3"},
     vals |-> {43, 91, 199}],
    [signals |-> {"a", "b"}, computeds |-> {"lengthSum"}, effects |-> {},
     vals |-> {2, 5}],
    [signals |-> {"a"}, computeds |-> {"double"}, effects |-> {"E1", "E4"},
     vals |-> {3, 5}],
    [signals |-> {"a"}, computeds |-> {"double", "c", "d"}, effects |-> {},
     vals |-> {3, 5}],
    [signals |-> {"a"}, computeds |-> {"double", "plus2", "diff"}, effects |-> {},
     vals |-> {3, 5}] }

Vals == UNION {p.vals : p \in Programs}

\* The cells a callback's body reads, in order.  E11 is
\* `mock(a.get(), effect(E12), b.get())`: an entry that is an effect stands
\* for the call of effect() with that callback.
body(cb) ==
  CASE cb = "E1" -> <<"a">>
    [] cb = "E2" -> <<"a", "a">>
    [] cb = "E3" -> <<"a">>
    [] cb = "E4" -> <<"double">>
    [] cb = "E5" -> <<"a", "double">>
    [] cb = "E6" -> <<"double", "plus2">>
    [] cb = "E7" -> <<"a", "b">>
    [] cb = "E8" -> <<"b">>
    [] cb = "E9" -> <<"a">>
    [] cb = "E10" -> <<"a">>
    [] cb = "E11" -> <<"a", "E12", "b">>
    [] cb = "E12" -> <<"double">>
    [] cb = "E13" -> <<"a", "double">>
    [] cb = "checked" -> <<"a">>
    [] cb = "App" -> <<"a">>
    [] cb = "Counter" -> <<"a", "double">>
    [] cb = "Ducks" -> <<"a">>
    [] cb = "Details" -> <<"a", "b">>
    [] cb = "lengthSum" -> <<"a", "b">>
    [] cb = "double" -> <<"a">>
    [] cb = "c" -> <<"double">>
    [] cb = "d" -> <<"double", "c">>
    [] cb = "plus2" -> <<"a">>
    [] cb = "diff" -> <<"double", "plus2">>

\* Text is a sequence of tokens: a number stands for its decimal form, and
\* span for the markup of one duck.
span == "<span>"

\* What a callback makes of the values it read: the argument an effect
\* hands to its mock, the value a computation returns, the string or array
\* of strings a render function returns.
result(cb, acc) ==
  CASE cb = "E1" -> acc[1]
    [] cb = "E2" -> acc[1] + acc[2]
    [] cb = "E3" -> acc[1] + 1000
    [] cb = "E4" -> acc[1]
    [] cb = "E5" -> acc[1] + acc[2]
    [] cb = "E6" -> acc[1] + acc[2]
    [] cb = "E7" -> (IF acc[1] # InitialValue THEN acc[1] + acc[2] ELSE acc[1])
    [] cb = "E8" -> acc[1]
    [] cb = "E9" -> acc[1]
    [] cb = "E10" -> acc[1]
    [] cb = "E11" -> acc[1] + acc[3]
    [] cb = "E12" -> acc[1]
    [] cb = "E13" -> (IF acc[1] # InitialValue THEN acc[1] + acc[2] ELSE acc[1])
    [] cb = "checked" -> acc[1]
    [] cb = "App" -> [isArray |-> FALSE, html |-> <<"Count is", acc[1]>>]
    [] cb = "Counter" ->
         [isArray |-> FALSE, html |-> <<"Count is", acc[1], "and double is", acc[2]>>]
    [] cb = "Ducks" -> [isArray |-> TRUE, html |-> [k \in 1..acc[1] |-> <<span>>]]
    [] cb = "Details" ->
         [isArray |-> FALSE,
          html |-> IF acc[1] # InitialValue THEN <<"Count is", acc[1], "of", acc[2]>>
                                            ELSE <<"Count is", acc[1]>>]
    [] cb = "lengthSum" -> acc[1] + acc[2]
    [] cb = "double" -> acc[1] * 2
    [] cb = "c" -> acc[1] + 2
    [] cb = "d" -> acc[1] - acc[2]
    [] cb = "plus2" -> acc[1] + 2
    [] cb = "diff" -> acc[1] - acc[2]

\* Array.prototype.join(''): the elements, concatenated.
RECURSIVE join(_)
join(array) == IF array = <<>> THEN <<>> ELSE Head(array) \o join(Tail(array))

\* Array.isArray(html) ? html.join('') : html
toInnerHTML(r) == IF r.isArray THEN join(r.html) ELSE r.html

\* Whether the body makes its i-th read, given the values read so far:
\* E7 is `const x = a.get(); mock(x !== 1 ? x + b.get() : x)`, and E13 the
\* same with double in the place of b; the render function of Details is
\* `() => count.get() !== 1 ? `Count is ${count.get()} of ${b.get()}` : ...`.
reads(cb, i, acc) ==
  (cb \in {"E7", "E13", "Details"} /\ i = 2) => acc[1] # InitialValue

\* Whether the body raises an error after its reads:
\* E8 is `const x = b.get(); if (x !== 1) throw new Error(); mock(x)`,
\* E9 the same with a, and the computed checked is
\* `const x = a.get(); if (x !== 1) throw new Error(); return x`.
throws(cb, acc) == cb \in {"E8", "E9", "checked"} /\ acc[1] # InitialValue

\* Whether the body writes a signal after its reads, and what it writes:
\* E10 is `const x = a.get(); if (x === 3) a.set(5); mock(x)`.
writes(cb, acc) == cb = "E10" /\ acc[1] = 3
written_by(cb) == [signal |-> "a", value |-> 5]

\* The signals a cell's value is computed from.
RECURSIVE Upstream(_)
Upstream(x) ==
  IF x \in Signals THEN {x}
  ELSE UNION {Upstream(body(x)[k]) : k \in 1..Len(body(x))}

VARIABLES
  prog,          \* the program run
  value,         \* signal: value
  dependencies,  \* signal / computed: dependencies (a Set, in insertion order)
  cached,        \* computed: cached
  isStale,       \* computed: isStale
  stack,         \* EffectStack.stack
  frames,        \* the call stack: one frame per function being executed
  ops,           \* calls made by the top-level program
  top,           \* the current (or last) call of the top-level program
  before,        \* computations, isStale and seen when that call was made
  written,       \* the values passed to set, per signal, in order
  seen,          \* the values each effect passed to its mock, in order
  computations,  \* how often each computed's callback was invoked
  registeredAt,  \* per effect: Len(written) of each signal when effect() was called
  trace,         \* the calls the top-level program has made, in order
  writesSinceGet,\* per computed: set calls on its upstream signals since its last get
  firstRender,   \* createApp: firstRender of each view's renderApp
  innerHTML,     \* root.innerHTML of each view's root element
  microtasks,    \* the callbacks queued by queueMicrotask, in order
  componentCalls \* how often each view's component function was invoked

vars == <<prog, value, dependencies, cached, isStale, stack, frames, ops, top,
          before, written, seen, computations, registeredAt, trace, writesSinceGet,
          firstRender, innerHTML, microtasks, componentCalls>>

engine == <<value, dependencies, cached, isStale, stack>>
history == <<written, seen, computations, registeredAt, writesSinceGet>>
dom == <<firstRender, innerHTML, microtasks, componentCalls>>

----------------------------------------------------------------------------
\* EffectStack

push(st, effect) == Append(st, effect)

pop(st) == SubSeq(st, 1, Len(st) - 1)

peek(st) == IF Len(st) = 0 THEN noEffect ELSE st[Len(st)]

\* Faulty variant: the subscribers kept in an array, push instead of Set.add.
ArrayPush(set, cb) == Append(set, cb)

\* Faulty variant: adding a member again moves it behind the other entries.
SetAddMovesLast(set, cb) == Append(SelectSeq(set, LAMBDA x : x # cb), cb)

\* Faulty variant: adding a member drops the members the Set had.
SetAddReplaces(set, cb) == <<cb>>

\* Set.prototype.add: insertion order, no second entry for a member.
SetAdd(set, cb) ==
  IF \E k \in 1..Len(set) : set[k] = cb THEN set ELSE Append(set, cb)

\* Faulty variant: the iteration stops after the first entry.
hasNextFirstOnly(set, i) == i <= Len(set) /\ i <= 1

\* Set.prototype.forEach: whether an entry is left to visit after i - 1 visits.
hasNext(set, i) == i <= Len(set)

\* `if (currentEffect) dependencies.add(currentEffect)` of cell.
track(cell, currentEffect) ==
  IF currentEffect # noEffect
    THEN [dependencies EXCEPT ![cell] = SetAdd(@, currentEffect)]
    ELSE dependencies

----------------------------------------------------------------------------
\* The call stack

Frame(fn, self) ==
  [fn |-> fn, self |-> self, pc |-> "start", i |-> 1, acc |-> <<>>,
   currentEffect |-> noEffect, arg |-> 0, atStart |-> <<>>]

Idle == frames = <<>>
Top == frames[Len(frames)]
Running(fn, pc) == ~Idle /\ Top.fn = fn /\ Top.pc = pc

Goto(pc) == [frames EXCEPT ![Len(frames)].pc = pc]

\* The frame of a call of callback cb: an effect's callback, the renderApp
\* of a view, or the markStale of a computed.
Callee(cb) ==
  IF cb \in Effects THEN Frame("callback", cb)
  ELSE IF cb \in Views THEN Frame("renderApp", cb)
  ELSE Frame("markStale", cb)

\* dependencies.forEach(...) begins; atStart keeps the entries the Set has
\* at this moment.
BeginForEach ==
  [frames EXCEPT ![Len(frames)].pc = "forEach",
                 ![Len(frames)].atStart = dependencies[Top.self]]

\* return; / return v: the frame is left, and a caller that uses the value
\* of the call receives it.
Return == SubSeq(frames, 1, Len(frames) - 1)
ReturnValue(v) ==
  LET rest == SubSeq(frames, 1, Len(frames) - 1)
  IN  IF rest = <<>> THEN rest
      ELSE [rest EXCEPT ![Len(rest)].acc = Append(@, v)]

\* The value the top-level program receives from the call that returns.
TopReturn(v) == IF Len(frames) = 1 THEN [top EXCEPT !.ret = v] ELSE top

Snapshot ==
  [computations |-> computations, isStale |-> isStale, cached |-> cached,
   seen |-> [e \in Effects |-> Len(seen[e])], dependencies |-> dependencies,
   writesSinceGet |-> writesSinceGet, stack |-> stack, innerHTML |-> innerHTML,
   microtasks |-> microtasks, componentCalls |-> componentCalls]

----------------------------------------------------------------------------
\* The state after the program's signals and computeds are constructed.

Start(programs) ==
  /\ prog \in programs
  /\ value = [s \in Signals |-> InitialValue]
  /\ dependencies = [x \in Cells |-> <<>>]
  /\ cached = [x \in Computeds |-> undefined]
  /\ isStale = [x \in Computeds |-> TRUE]
  /\ stack = <<>>
  /\ frames = <<>>
  /\ ops = 0
  /\ top = [op |-> "none", target |-> "none", arg |-> 0, ret |-> undefined]
  /\ before = [computations |-> [x \in Computeds |-> 0],
               isStale |-> [x \in Computeds |-> TRUE],
               cached |-> [x \in Computeds |-> undefined],
               seen |-> [e \in Effects |-> 0],
               dependencies |-> [x \in Cells |-> <<>>],
               writesSinceGet |-> [x \in Computeds |-> 0],
               stack |-> <<>>,
               innerHTML |-> [v \in Views |-> <<>>],
               microtasks |-> <<>>,
               componentCalls |-> [v \in Views |-> 0]]
  /\ written = [s \in Signals |-> <<>>]
  /\ seen = [e \in Effects |-> <<>>]
  /\ computations = [x \in Computeds |-> 0]
  /\ registeredAt = [e \in Effects |-> [s \in Signals |-> -1]]
  /\ trace = <<>>
  /\ writesSinceGet = [x \in Computeds |-> 0]
  /\ firstRender = [v \in Views |-> TRUE]
  /\ innerHTML = [v \in Views |-> <<>>]
  /\ microtasks = <<>>
  /\ componentCalls = [v \in Views |-> 0]

Init == Start(Programs)

Registered(e) == \A s \in Signals : registeredAt[e][s] >= 0

----------------------------------------------------------------------------
\* Calls made by the top-level program (no function is executing).

TopCall(op, target, arg) ==
  /\ Idle
  /\ ops < MaxOps
  /\ ops' = ops + 1
  /\ top' = [op |-> op, target |-> target, arg |-> arg, ret |-> undefined]
  /\ before' = Snapshot
  /\ trace' = Append(trace, [op |-> op, target |-> target])
  /\ UNCHANGED <<prog, dom>>

\* effect(callback)
TopEffect(e) ==
  /\ e \in prog.effects
  /\ ~Registered(e)
  /\ TopCall("effect", e, 0)
  /\ frames' = <<Frame("effect", e)>>
  /\ registeredAt' = [registeredAt EXCEPT ![e] = [s \in Signals |-> Len(written[s])]]
  /\ UNCHANGED <<engine, written, seen, computations, writesSinceGet>>

\* s.set(v)
TopSet(s, v) ==
  /\ s \in prog.signals
  /\ v \in prog.vals
  /\ TopCall("set", s, v)
  /\ frames' = <<[Frame("set", s) EXCEPT !.arg = v]>>
  /\ UNCHANGED <<engine, history>>

\* s.get(): signal.get makes no call, it is one step.
TopSignalGet(s) ==
  /\ s \in prog.signals
  /\ Idle
  /\ ops < MaxOps
  /\ ops' = ops + 1
  /\ before' = Snapshot
  /\ trace' = Append(trace, [op |-> "get", target |-> s])
  /\ dependencies' = track(s, peek(stack))
  /\ top' = [op |-> "get", target |-> s, arg |-> 0, ret |-> value[s]]
  /\ UNCHANGED <<prog, dom, value, cached, isStale, stack, frames, history>>

\* c.get()
TopComputedGet(c) ==
  /\ c \in prog.computeds
  /\ TopCall("get", c, 0)
  /\ frames' = <<Frame("get", c)>>
  /\ writesSinceGet' = [writesSinceGet EXCEPT ![c] = 0]
  /\ UNCHANGED <<engine, written, seen, computations, registeredAt>>

----------------------------------------------------------------------------
\* effect (duck-js.ts 116-127)

\* Faulty variant: effect runs the callback without pushing it.
EffectPushForgotten ==
  /\ Running("effect", "start")
  /\ frames' = Goto("call")
  /\ UNCHANGED <<prog, dom, engine, ops, top, before, history, trace>>

\* stack.push(callback)
EffectPush ==
  /\ Running("effect", "start")
  /\ stack' = push(stack, Top.self)
  /\ frames' = Goto("call")
  /\ UNCHANGED <<prog, dom, value, dependencies, cached, isStale, ops, top, before, history, trace>>

\* callback()
EffectCall ==
  /\ Running("effect", "call")
  /\ frames' = Append(Goto("pop"), Callee(Top.self))
  /\ UNCHANGED <<prog, dom, engine, ops, top, before, history, trace>>

\* Faulty variant: effect returns without popping the callback.
EffectPopForgotten ==
  /\ Running("effect", "pop")
  /\ frames' = Return
  /\ UNCHANGED <<prog, dom, engine, ops, top, before, history, trace>>

\* stack.pop()
EffectPop ==
  /\ Running("effect", "pop")
  /\ stack' = pop(stack)
  /\ frames' = Return
  /\ UNCHANGED <<prog, dom, value, dependencies, cached, isStale, ops, top, before, history, trace>>

----------------------------------------------------------------------------
\* The bodies of effect callbacks and of computeds' callbacks.

InBody == ~Idle /\ Top.fn \in {"callback", "calculation", "render"}
NextCell == body(Top.self)[Top.i]

\* signal.get (duck-js.ts 36-51), called by a body.
ReadSignal ==
  /\ InBody
  /\ Top.i <= Len(body(Top.self))
  /\ NextCell \in Signals
  /\ reads(Top.self, Top.i, Top.acc)
  /\ dependencies' = track(NextCell, peek(stack))
  /\ frames' = [frames EXCEPT ![Len(frames)].acc = Append(@, value[NextCell]),
                              ![Len(frames)].i = @ + 1]
  /\ UNCHANGED <<prog, dom, value, cached, isStale, stack, ops, top, before, history, trace>>

\* A body calls computed.get.
ReadComputed ==
  /\ InBody
  /\ Top.i <= Len(body(Top.self))
  /\ NextCell \in Computeds
  /\ reads(Top.self, Top.i, Top.acc)
  /\ frames' = Append([frames EXCEPT ![Len(frames)].i = @ + 1], Frame("get", NextCell))
  /\ writesSinceGet' = [writesSinceGet EXCEPT ![NextCell] = 0]
  /\ UNCHANGED <<prog, dom, engine, ops, top, before, written, seen, computations,
                 registeredAt, trace>>

\* An effect's callback hands what it read to its mock and returns.
CallbackReturn ==
  /\ ~Idle
  /\ Top.fn = "callback"
  /\ Top.i > Len(body(Top.self))
  /\ ~throws(Top.self, Top.acc)
  /\ writes(Top.self, Top.acc) => Top.pc = "wrote"
  /\ seen' = [seen EXCEPT ![Top.self] = Append(@, result(Top.self, Top.acc))]
  /\ frames' = Return
  /\ UNCHANGED <<prog, dom, engine, ops, top, before, written, computations, registeredAt,
                 trace, writesSinceGet>>

\* The body does not make its next read.
SkipRead ==
  /\ InBody
  /\ Top.i <= Len(body(Top.self))
  /\ ~reads(Top.self, Top.i, Top.acc)
  /\ frames' = [frames EXCEPT ![Len(frames)].acc = Append(@, undefined),
                              ![Len(frames)].i = @ + 1]
  /\ UNCHANGED <<prog, dom, engine, ops, top, before, history, trace>>

\* An effect's callback raises an error.  No function of duck-js.ts catches:
\* every frame is left, and the top-level program receives the error.
CallbackThrow ==
  /\ ~Idle
  /\ Top.fn = "callback"
  /\ Top.i > Len(body(Top.self))
  /\ throws(Top.self, Top.acc)
  /\ frames' = <<>>
  /\ top' = [top EXCEPT !.ret = thrown]
  /\ UNCHANGED <<prog, dom, engine, ops, before, history, trace>>

\* An effect's callback calls set.
CallbackSet ==
  /\ ~Idle
  /\ Top.fn = "callback"
  /\ Top.i > Len(body(Top.self))
  /\ writes(Top.self, Top.acc)
  /\ Top.pc = "start"
  /\ frames' = Append(Goto("wrote"),
                      [Frame("set", written_by(Top.self).signal)
                         EXCEPT !.arg = written_by(Top.self).value])
  /\ UNCHANGED <<prog, dom, engine, ops, top, before, history, trace>>

\* A callback's body calls effect(callback).
NestedEffect ==
  /\ InBody
  /\ Top.i <= Len(body(Top.self))
  /\ NextCell \in Effects
  /\ frames' = Append([frames EXCEPT ![Len(frames)].acc = Append(@, undefined),
                                     ![Len(frames)].i = @ + 1],
                      Frame("effect", NextCell))
  /\ UNCHANGED <<prog, dom, engine, ops, top, before, history, trace>>

\* A computed's callback raises an error: every frame is left.
CalculationThrow ==
  /\ ~Idle
  /\ Top.fn = "calculation"
  /\ Top.i > Len(body(Top.self))
  /\ throws(Top.self, Top.acc)
  /\ frames' = <<>>
  /\ top' = [top EXCEPT !.ret = thrown]
  /\ UNCHANGED <<prog, dom, engine, ops, before, history, trace>>

\* A computed's callback returns its value.
CalculationReturn ==
  /\ ~Idle
  /\ Top.fn = "calculation"
  /\ Top.i > Len(body(Top.self))
  /\ ~throws(Top.self, Top.acc)
  /\ frames' = ReturnValue(result(Top.self, Top.acc))
  /\ UNCHANGED <<prog, dom, engine, ops, top, before, history, trace>>

----------------------------------------------------------------------------
\* signal.set (duck-js.ts 52-56)

\* Faulty variant: set notifies without storing the new value.
SetAssignNotStored ==
  /\ Running("set", "start")
  /\ written' = [written EXCEPT ![Top.self] = Append(@, Top.arg)]
  /\ writesSinceGet' = [x \in Computeds |->
                          IF Top.self \in Upstream(x) THEN writesSinceGet[x] + 1
                                                      ELSE writesSinceGet[x]]
  /\ frames' = BeginForEach
  /\ UNCHANGED <<prog, dom, engine, ops, top, before, seen, computations, registeredAt, trace>>

\* value = newValue
SetAssign ==
  /\ Running("set", "start")
  /\ value' = [value EXCEPT ![Top.self] = Top.arg]
  /\ written' = [written EXCEPT ![Top.self] = Append(@, Top.arg)]
  /\ writesSinceGet' = [x \in Computeds |->
                          IF Top.self \in Upstream(x) THEN writesSinceGet[x] + 1
                                                      ELSE writesSinceGet[x]]
  /\ frames' = BeginForEach
  /\ UNCHANGED <<prog, dom, dependencies, cached, isStale, stack, ops, top, before,
                 seen, computations, registeredAt, trace>>

\* dependencies.forEach((effect) => effect()) of signal.set and of markStale:
\* Set.prototype.forEach visits the entries in insertion order, those added
\* during the iteration included.
ForEachCall ==
  /\ ~Idle
  /\ Top.pc = "forEach"
  /\ hasNext(dependencies[Top.self], Top.i)
  /\ LET cb == dependencies[Top.self][Top.i]
     IN  frames' = Append([frames EXCEPT ![Len(frames)].i = @ + 1], Callee(cb))
  /\ UNCHANGED <<prog, dom, engine, ops, top, before, history, trace>>

ForEachReturn ==
  /\ ~Idle
  /\ Top.pc = "forEach"
  /\ ~hasNext(dependencies[Top.self], Top.i)
  /\ frames' = Return
  /\ UNCHANGED <<prog, dom, engine, ops, top, before, history, trace>>

----------------------------------------------------------------------------
\* computed (duck-js.ts 64-111)

\* Faulty variant: get never takes the cached value.
neverFresh(c) == FALSE

\* get: `if (!isStale)`, the cached value is still fresh.
fresh(c) == ~isStale[c]

\* Faulty variant: markStale sets the flag and notifies nobody.
MarkStaleSilent ==
  /\ Running("markStale", "start")
  /\ isStale' = [isStale EXCEPT ![Top.self] = TRUE]
  /\ frames' = Return
  /\ UNCHANGED <<prog, dom, value, dependencies, cached, stack, ops, top, before, history, trace>>

\* markStale: isStale = true
MarkStaleAssign ==
  /\ Running("markStale", "start")
  /\ isStale' = [isStale EXCEPT ![Top.self] = TRUE]
  /\ frames' = BeginForEach
  /\ UNCHANGED <<prog, dom, value, dependencies, cached, stack, ops, top, before, history, trace>>

\* Faulty variant: the fresh path returns cached without tracking the reader.
ComputedGetFreshUntracked ==
  /\ Running("get", "start")
  /\ fresh(Top.self)
  /\ frames' = ReturnValue(cached[Top.self])
  /\ top' = TopReturn(cached[Top.self])
  /\ UNCHANGED <<prog, dom, engine, ops, before, history, trace>>

\* get, cached value fresh: track and return cached.
ComputedGetFresh ==
  /\ Running("get", "start")
  /\ fresh(Top.self)
  /\ dependencies' = track(Top.self, peek(stack))
  /\ frames' = ReturnValue(cached[Top.self])
  /\ top' = TopReturn(cached[Top.self])
  /\ UNCHANGED <<prog, dom, value, cached, isStale, stack, ops, before, history, trace>>

\* Faulty variant: the stale path computes without pushing markStale.
ComputedGetPushForgotten ==
  /\ Running("get", "start")
  /\ ~fresh(Top.self)
  /\ frames' = [frames EXCEPT ![Len(frames)].currentEffect = peek(stack),
                              ![Len(frames)].pc = "call"]
  /\ UNCHANGED <<prog, dom, engine, ops, top, before, history, trace>>

\* get, stale: currentEffect = peek(); stack.push(markStale)
ComputedGetPush ==
  /\ Running("get", "start")
  /\ ~fresh(Top.self)
  /\ stack' = push(stack, Top.self)
  /\ frames' = [frames EXCEPT ![Len(frames)].currentEffect = peek(stack),
                              ![Len(frames)].pc = "call"]
  /\ UNCHANGED <<prog, dom, value, dependencies, cached, isStale, ops, top, before, history, trace>>

\* callback()
ComputedGetCall ==
  /\ Running("get", "call")
  /\ computations' = [computations EXCEPT ![Top.self] = @ + 1]
  /\ frames' = Append(Goto("assign"), Frame("calculation", Top.self))
  /\ UNCHANGED <<prog, dom, engine, ops, top, before, written, seen, registeredAt, trace,
                 writesSinceGet>>

\* cached = <the value callback() returned>
ComputedGetAssign ==
  /\ Running("get", "assign")
  /\ cached' = [cached EXCEPT ![Top.self] = Top.acc[1]]
  /\ frames' = Goto("pop")
  /\ UNCHANGED <<prog, dom, value, dependencies, isStale, stack, ops, top, before, history, trace>>

\* Faulty variant: get leaves markStale on the stack.
ComputedGetPopForgotten ==
  /\ Running("get", "pop")
  /\ frames' = Goto("track")
  /\ UNCHANGED <<prog, dom, engine, ops, top, before, history, trace>>

\* stack.pop()
ComputedGetPop ==
  /\ Running("get", "pop")
  /\ stack' = pop(stack)
  /\ frames' = Goto("track")
  /\ UNCHANGED <<prog, dom, value, dependencies, cached, isStale, ops, top, before, history, trace>>

\* if (currentEffect) dependencies.add(currentEffect)
ComputedGetTrack ==
  /\ Running("get", "track")
  /\ dependencies' = track(Top.self, Top.currentEffect)
  /\ frames' = Goto("return")
  /\ UNCHANGED <<prog, dom, value, cached, isStale, stack, ops, top, before, history, trace>>

\* Faulty variant: get returns the computed value and leaves isStale set.
ComputedGetReturnStillStale ==
  /\ Running("get", "return")
  /\ frames' = ReturnValue(cached[Top.self])
  /\ top' = TopReturn(cached[Top.self])
  /\ UNCHANGED <<prog, dom, engine, ops, before, history, trace>>

\* isStale = false; return cached
ComputedGetReturn ==
  /\ Running("get", "return")
  /\ isStale' = [isStale EXCEPT ![Top.self] = FALSE]
  /\ frames' = ReturnValue(cached[Top.self])
  /\ top' = TopReturn(cached[Top.self])
  /\ UNCHANGED <<prog, dom, value, dependencies, cached, stack, ops, before, history, trace>>

----------------------------------------------------------------------------
\* createApp (duck-js.ts 135-175)

\* createApp(component, root); root is 0 for null and 1 for an element.
TopCreateApp(v, root) ==
  /\ v \in prog.views
  /\ root = 0 \/ componentCalls[v] = 0
  /\ TopCall("createApp", v, root)
  /\ frames' = <<[Frame("createApp", v) EXCEPT !.arg = root]>>
  /\ UNCHANGED <<engine, history>>

\* Faulty variant: the component is set up before the root is checked.
CreateAppThrowLate ==
  /\ Running("createApp", "start")
  /\ Top.arg = 0
  /\ componentCalls' = [componentCalls EXCEPT ![Top.self] = @ + 1]
  /\ frames' = <<>>
  /\ top' = [top EXCEPT !.ret = thrown]
  /\ UNCHANGED <<prog, engine, ops, before, history, trace, firstRender, innerHTML,
                 microtasks>>

\* if (!root) throw new Error('Root element not found')
CreateAppThrow ==
  /\ Running("createApp", "start")
  /\ Top.arg = 0
  /\ frames' = <<>>
  /\ top' = [top EXCEPT !.ret = thrown]
  /\ UNCHANGED <<prog, dom, engine, ops, before, history, trace>>

\* const render = component(); const renderApp = <closure, firstRender = true>
CreateAppComponent ==
  /\ Running("createApp", "start")
  /\ Top.arg # 0
  /\ componentCalls' = [componentCalls EXCEPT ![Top.self] = @ + 1]
  /\ firstRender' = [firstRender EXCEPT ![Top.self] = TRUE]
  /\ frames' = Goto("effect")
  /\ UNCHANGED <<prog, engine, ops, top, before, history, trace, innerHTML, microtasks>>

\* effect(renderApp)
CreateAppEffect ==
  /\ Running("createApp", "effect")
  /\ frames' = Append(Goto("return"), Frame("effect", Top.self))
  /\ UNCHANGED <<prog, dom, engine, ops, top, before, history, trace>>

CreateAppReturn ==
  /\ Running("createApp", "return")
  /\ frames' = Return
  /\ UNCHANGED <<prog, dom, engine, ops, top, before, history, trace>>

\* Faulty variant: the first render is queued like the later ones.
RenderAppFirstDeferred ==
  /\ Running("renderApp", "start")
  /\ firstRender[Top.self]
  /\ firstRender' = [firstRender EXCEPT ![Top.self] = FALSE]
  /\ microtasks' = Append(microtasks, Top.self)
  /\ frames' = Return
  /\ UNCHANGED <<prog, engine, ops, top, before, history, trace, innerHTML,
                 componentCalls>>

\* renderApp, first render: const html = render()
RenderAppFirst ==
  /\ Running("renderApp", "start")
  /\ firstRender[Top.self]
  /\ frames' = Append(Goto("write"), Frame("render", Top.self))
  /\ UNCHANGED <<prog, dom, engine, ops, top, before, history, trace>>

\* root.innerHTML = Array.isArray(html) ? html.join('') : html
RenderAppWrite ==
  /\ Running("renderApp", "write")
  /\ innerHTML' = [innerHTML EXCEPT ![Top.self] = toInnerHTML(Top.acc[1])]
  /\ frames' = Goto("done")
  /\ UNCHANGED <<prog, engine, ops, top, before, history, trace, firstRender,
                 microtasks, componentCalls>>

\* Faulty variant: the first render returns and leaves firstRender set.
RenderAppDoneFlagKept ==
  /\ Running("renderApp", "done")
  /\ frames' = Return
  /\ UNCHANGED <<prog, dom, engine, ops, top, before, history, trace>>

\* firstRender = false; return
RenderAppDone ==
  /\ Running("renderApp", "done")
  /\ firstRender' = [firstRender EXCEPT ![Top.self] = FALSE]
  /\ frames' = Return
  /\ UNCHANGED <<prog, engine, ops, top, before, history, trace, innerHTML,
                 microtasks, componentCalls>>

\* Faulty variant: the later renders are made at once, like the first.
RenderAppSynchronous ==
  /\ Running("renderApp", "start")
  /\ ~firstRender[Top.self]
  /\ frames' = Append(Goto("write"), Frame("render", Top.self))
  /\ UNCHANGED <<prog, dom, engine, ops, top, before, history, trace>>

\* renderApp, later renders: queueMicrotask(() => {...})
RenderAppDefer ==
  /\ Running("renderApp", "start")
  /\ ~firstRender[Top.self]
  /\ microtasks' = Append(microtasks, Top.self)
  /\ frames' = Return
  /\ UNCHANGED <<prog, engine, ops, top, before, history, trace, firstRender,
                 innerHTML, componentCalls>>

\* The render function returns its string or array.
RenderReturn ==
  /\ ~Idle
  /\ Top.fn = "render"
  /\ Top.i > Len(body(Top.self))
  /\ frames' = ReturnValue(result(Top.self, Top.acc))
  /\ UNCHANGED <<prog, dom, engine, ops, top, before, history, trace>>

\* The host drains the microtask queue when the call stack has emptied: the
\* queued callbacks run in order, and no other code runs before the queue
\* is empty.
DrainStart ==
  /\ Idle
  /\ microtasks # <<>>
  /\ frames' = <<Frame("drain", "host")>>
  /\ trace' = Append(trace, [op |-> "drain", target |-> "host"])
  /\ UNCHANGED <<prog, dom, engine, ops, top, before, history>>

\* Faulty variant: the host drops the queued closure without invoking it.
DrainNextDropped ==
  /\ Running("drain", "start")
  /\ microtasks # <<>>
  /\ microtasks' = Tail(microtasks)
  /\ UNCHANGED <<prog, engine, frames, ops, top, before, history, trace, firstRender,
                 innerHTML, componentCalls>>

DrainNext ==
  /\ Running("drain", "start")
  /\ microtasks # <<>>
  /\ microtasks' = Tail(microtasks)
  /\ frames' = Append(frames, Frame("microtask", Head(microtasks)))
  /\ UNCHANGED <<prog, engine, ops, top, before, history, trace, firstRender,
                 innerHTML, componentCalls>>

DrainEnd ==
  /\ Running("drain", "start")
  /\ microtasks = <<>>
  /\ frames' = Return
  /\ UNCHANGED <<prog, dom, engine, ops, top, before, history, trace>>

\* Faulty variant: the queued closure renders as an active effect.
MicrotaskRenderTracked ==
  /\ Running("microtask", "start")
  /\ stack' = push(stack, Top.self)
  /\ frames' = Append(Goto("write"), Frame("render", Top.self))
  /\ UNCHANGED <<prog, dom, value, dependencies, cached, isStale, ops, top, before,
                 history, trace>>

\* The queued closure: const html = render()
MicrotaskRender ==
  /\ Running("microtask", "start")
  /\ frames' = Append(Goto("write"), Frame("render", Top.self))
  /\ UNCHANGED <<prog, dom, engine, ops, top, before, history, trace>>

\* Faulty variant: the queued closure renders and does not write.
MicrotaskWriteNothing ==
  /\ Running("microtask", "write")
  /\ frames' = Return
  /\ UNCHANGED <<prog, dom, engine, ops, top, before, history, trace>>

\* root.innerHTML = Array.isArray(html) ? html.join('') : html
MicrotaskWrite ==
  /\ Running("microtask", "write")
  /\ innerHTML' = [innerHTML EXCEPT ![Top.self] = toInnerHTML(Top.acc[1])]
  /\ frames' = Return
  /\ UNCHANGED <<prog, engine, ops, top, before, history, trace, firstRender,
                 microtasks, componentCalls>>

----------------------------------------------------------------------------

Next ==
  \/ \E e \in Effects : TopEffect(e)
  \/ \E s \in Signals, v \in Vals : TopSet(s, v)
  \/ \E s \in Signals : TopSignalGet(s)
  \/ \E c \in Computeds : TopComputedGet(c)
  \/ EffectPush
  \/ EffectCall
  \/ EffectPop
  \/ ReadSignal
  \/ ReadComputed
  \/ CallbackReturn
  \/ CalculationReturn
  \/ SetAssign
  \/ ForEachCall
  \/ ForEachReturn
  \/ MarkStaleAssign
  \/ ComputedGetFresh
  \/ ComputedGetPush
  \/ ComputedGetCall
  \/ ComputedGetAssign
  \/ ComputedGetPop
  \/ ComputedGetTrack
  \/ ComputedGetReturn

Spec == Init /\ [][Next]_vars

----------------------------------------------------------------------------
\* Programs whose effects read a signal together with a computed of it (E5),
\* read two computeds of one signal (E6), read a cell only after a write
\* (E7), raise an error (E8, E9), or write the signal they read (E10), and
\* a program whose computed raises an error (checked).

EffectPrograms ==
  { [signals |-> {"a"}, computeds |-> {"double"}, effects |-> {"E5"},
     vals |-> {3, 5}],
    [signals |-> {"a"}, computeds |-> {"double", "plus2"}, effects |-> {"E6"},
     vals |-> {3, 5}],
    [signals |-> {"a", "b"}, computeds |-> {}, effects |-> {"E7"},
     vals |-> {3, 5}],
    [signals |-> {"a", "b"}, computeds |-> {}, effects |-> {"E1", "E8"},
     vals |-> {3}],
    [signals |-> {"a"}, computeds |-> {"double"}, effects |-> {"E9"},
     vals |-> {3}],
    [signals |-> {"a"}, computeds |-> {}, effects |-> {"E1", "E10"},
     vals |-> {3, 5}],
    [signals |-> {"a"}, computeds |-> {"checked"}, effects |-> {"E1"},
     vals |-> {3}],
    [signals |-> {"a"}, computeds |-> {"double"}, effects |-> {"E4", "E10"},
     vals |-> {3}] }

InitEffects == Start(EffectPrograms)

NextEffects ==
  \/ Next
  \/ SkipRead
  \/ CallbackThrow
  \/ CallbackSet
  \/ CalculationThrow

SpecEffects == InitEffects /\ [][NextEffects]_vars

----------------------------------------------------------------------------
\* A program whose effect E11 registers the effect E12 in its body.

NestedPrograms ==
  { [signals |-> {"a", "b"}, computeds |-> {"double"}, effects |-> {"E11"},
     vals |-> {3, 5}] }

InitNested == Start(NestedPrograms)

NextNested ==
  \/ Next
  \/ NestedEffect

SpecNested == InitNested /\ [][NextNested]_vars

----------------------------------------------------------------------------
\* Programs that mount components: the tests of 4-rendering.test.ts and the
\* Ducks component of app.ts.

RenderPrograms ==
  { [signals |-> {"a"}, computeds |-> {}, effects |-> {}, views |-> {"App"},
     vals |-> {3}],
    [signals |-> {"a"}, computeds |-> {"double"}, effects |-> {"E1"},
     views |-> {"Counter"}, vals |-> {3, 5}],
    [signals |-> {"a"}, computeds |-> {}, effects |-> {}, views |-> {"Ducks"},
     vals |-> {2, 3}] }

InitRender == Start(RenderPrograms)

NextRender ==
  \/ Next
  \/ \E v \in Views, root \in {0, 1} : TopCreateApp(v, root)
  \/ CreateAppThrow
  \/ CreateAppComponent
  \/ CreateAppEffect
  \/ CreateAppReturn
  \/ RenderAppFirst
  \/ RenderAppWrite
  \/ RenderAppDone
  \/ RenderAppDefer
  \/ RenderReturn
  \/ DrainStart
  \/ DrainNext
  \/ DrainEnd
  \/ MicrotaskRender
  \/ MicrotaskWrite

SpecRender == InitRender /\ [][NextRender]_vars

\* JavaScript runs a call to completion, and the host drains the microtask
\* queue once the call stack is empty: every step other than a new call of
\* the top-level program is eventually taken.
Continue == NextRender /\ ops' = ops

\* The programs run under that condition write one value.
FairRenderPrograms ==
  { [signals |-> {"a"}, computeds |-> {"double"}, effects |-> {"E1"},
     views |-> {"Counter"}, vals |-> {3}],
    [signals |-> {"a"}, computeds |-> {}, effects |-> {}, views |-> {"Ducks"},
     vals |-> {2}] }

InitRenderFair == Start(FairRenderPrograms)

SpecRenderFair == InitRenderFair /\ [][NextRender]_vars /\ WF_vars(Continue)

----------------------------------------------------------------------------
\* A program whose view reads a second signal only once the first one has
\* changed, beside the counter of 4-rendering.test.ts.

DeferredPrograms ==
  { [signals |-> {"a", "b"}, computeds |-> {}, effects |-> {}, views |-> {"Details"},
     vals |-> {3}],
    [signals |-> {"a"}, computeds |-> {"double"}, effects |-> {"E1"},
     views |-> {"Counter"}, vals |-> {3}] }

InitDeferred == Start(DeferredPrograms)

NextDeferred ==
  \/ NextRender
  \/ SkipRead

SpecDeferred == InitDeferred /\ [][NextDeferred]_vars

----------------------------------------------------------------------------
\* The EffectStack class by itself (duck-js.ts 5-27): push, pop and peek
\* called in any order.

StackPush(cb) ==
  /\ cb \in prog.effects
  /\ TopCall("push", cb, 0)
  /\ stack' = push(stack, cb)
  /\ UNCHANGED <<value, dependencies, cached, isStale, frames, history>>

\* pop() { this.stack.pop() }: Array.prototype.pop leaves an empty array
\* empty and raises nothing.
StackPop ==
  /\ TopCall("pop", "stack", 0)
  /\ stack' = pop(stack)
  /\ UNCHANGED <<value, dependencies, cached, isStale, frames, history>>

\* peek(); the program receives the top entry, or undefined.
StackPeek ==
  /\ TopCall("peek", peek(stack), 0)
  /\ UNCHANGED <<engine, frames, history>>

InitStack ==
  Start({[signals |-> {}, computeds |-> {}, effects |-> {"E1", "E2", "E3"}, vals |-> {}]})

NextStack ==
  \/ \E cb \in Effects : StackPush(cb)
  \/ StackPop
  \/ StackPeek

SpecStack == InitStack /\ [][NextStack]_vars

----------------------------------------------------------------------------
\* Helpers of the properties

Range(seq) == {seq[k] : k \in 1..Len(seq)}
Last(seq) == seq[Len(seq)]

\* The k-th value signal s has held: the initial one, then the written ones.
Held(s, k) == IF k = 0 THEN InitialValue ELSE written[s][k]

\* An effect whose body reads signal s and nothing else.
ReadsOnly(e, s) == Range(body(e)) = {s}

\* What callback cb makes of its cells when each signal holds val[s].
RECURSIVE Eval(_, _)
Eval(x, val) ==
  IF x \in Signals THEN val[x]
  ELSE result(x, [k \in 1..Len(body(x)) |-> Eval(body(x)[k], val)])

\* The calls of e's mock made by the current top-level call.
Runs(e) == Len(seen[e]) - before.seen[e]
\* The invocations of c's callback made by the current top-level call.
Calculations(c) == computations[c] - before.computations[c]

IsPrefix(p, q) == Len(p) <= Len(q) /\ \A k \in 1..Len(p) : p[k] = q[k]

----------------------------------------------------------------------------
\* C1: an effect whose body reads only signal s has run once when effect()
\* returns and once more when each later s.set(v) returns, and it has
\* observed the value s held at registration followed by the written values
\* in write order; while a call is still executing it has observed a prefix
\* of that.
Observations(e, s) ==
  [k \in 1..(1 + Len(written[s]) - registeredAt[e][s]) |->
     result(e, [j \in 1..Len(body(e)) |-> Held(s, registeredAt[e][s] + k - 1)])]

C1_EffectRunsOncePerWrite ==
  \A e \in Effects, s \in Signals :
    ReadsOnly(e, s) =>
      /\ ~Registered(e) => seen[e] = <<>>
      /\ Registered(e) => IsPrefix(seen[e], Observations(e, s))
      /\ Registered(e) /\ Idle => seen[e] = Observations(e, s)

C1_Witness == Idle /\ seen["E1"] = <<1, 43, 91, 199>>

----------------------------------------------------------------------------
\* C2: no subscriber set ever holds a callback twice, and an effect that
\* reads signal s (once or several times in one run) is re-invoked exactly
\* once by one s.set, not once per read.
NoDuplicates(set) == \A i, j \in 1..Len(set) : set[i] = set[j] => i = j

C2_NoDuplicateSubscription ==
  /\ \A x \in Cells : NoDuplicates(dependencies[x])
  /\ \A e \in Effects :
       (top.op = "set" /\ ReadsOnly(e, top.target) /\ Registered(e)) =>
         /\ Runs(e) <= 1
         /\ Idle => Runs(e) = 1

C2_Witness ==
  /\ Idle
  /\ top.op = "set"
  /\ Registered("E2")
  /\ Len(body("E2")) = 2
  /\ Runs("E2") = 1
  /\ Last(seen["E2"]) = 43 + 43

----------------------------------------------------------------------------
\* C3: s.get() called by the top-level program (no computation active)
\* returns the current value and changes no subscriber set; every entry of
\* a subscriber set is a callback whose own body reads that cell and that
\* has run, and the effects a set invokes are exactly the registered effects
\* that depend on the written signal.
OutsideGet == Idle /\ Idle' /\ ops' = ops + 1

C3_SubscribersSound ==
  /\ \A x \in Cells : \A cb \in Range(dependencies[x]) :
       /\ x \in Range(body(cb))
       /\ cb \in Effects => Registered(cb)
       /\ cb \in Computeds => computations[cb] > 0
  /\ (Idle /\ top.op = "set") =>
       \A e \in Effects :
         Runs(e) > 0 <=> (Registered(e) /\ top.target \in Upstream(e))

C3_NoTrackingOutsideRun ==
  /\ []C3_SubscribersSound
  /\ [][OutsideGet =>
          /\ dependencies' = dependencies
          /\ top'.ret = value[top'.target]]_vars

C3_Witness ==
  /\ Idle
  /\ trace = << [op |-> "effect", target |-> "E4"], [op |-> "get", target |-> "a"],
               [op |-> "set", target |-> "a"] >>
  /\ Runs("E4") = 1
  /\ Runs("E1") = 0
  /\ dependencies["a"] = <<"double">>

----------------------------------------------------------------------------
\* C4: when several effects have each read signal s and nothing else, one
\* s.set(v) invokes every one of them exactly once, and each observes v.
C4_EveryEffectOncePerSet ==
  \A e \in Effects :
    (top.op = "set" /\ ReadsOnly(e, top.target) /\ Registered(e)) =>
      /\ Runs(e) <= 1
      /\ Idle =>
           /\ Runs(e) = 1
           /\ Last(seen[e]) = result(e, [j \in 1..Len(body(e)) |-> top.arg])

C4_Witness ==
  /\ Idle
  /\ top.op = "set"
  /\ \A e \in {"E1", "E2", "E3"} : Registered(e) /\ Runs(e) = 1
  /\ Last(seen["E1"]) = 91
  /\ Last(seen["E3"]) = 91 + 1000

----------------------------------------------------------------------------
\* C5: s.get() returns the initial value while s was never written and
\* the argument of the latest s.set otherwise, to the top-level program and
\* to every running body.
Latest(s) == Held(s, Len(written[s]))

C5_GetReturnsLatest ==
  /\ (top.op = "get" /\ top.target \in Signals) => top.ret = Latest(top.target)
  /\ \A n \in 1..Len(frames) :
       frames[n].fn \in {"callback", "calculation"} =>
         \A j \in 1..Len(frames[n].acc) :
           body(frames[n].self)[j] \in Signals =>
             frames[n].acc[j] = Latest(body(frames[n].self)[j])

C5_Witness ==
  /\ top.op = "get"
  /\ top.target = "a"
  /\ written["a"] = <<91, 43>>
  /\ top.ret = 43
  /\ seen["E1"] = <<91, 43>>

C5_WitnessInitial ==
  /\ top.op = "get" /\ top.target = "b" /\ written["b"] = <<>> /\ top.ret = InitialValue
  /\ Len(written["a"]) > 0

----------------------------------------------------------------------------
\* C6: a computed is lazy and cached.  Its callback has not been invoked
\* while nothing has read a computed (construction and signal writes invoke
\* none); an invocation happens only in a get() of that computed that found
\* it stale; a top-level get() of a computed that was computed before and
\* had no upstream write since its last get() invokes no callback and
\* returns the value cached before the call; a set made while no effect is
\* registered invokes no callback.
NothingReadYet ==
  \A k \in 1..Len(trace) :
    trace[k].op = "set" \/ (trace[k].op = "get" /\ trace[k].target \in Signals)

CachedGet(c) ==
  /\ top.op = "get"
  /\ top.target = c
  /\ before.computations[c] > 0
  /\ before.writesSinceGet[c] = 0

C6_State ==
  /\ NothingReadYet => \A c \in Computeds : computations[c] = 0
  /\ \A c \in Computeds :
       CachedGet(c) =>
         /\ \A x \in Computeds : Calculations(x) = 0
         /\ cached = before.cached
         /\ Idle => top.ret = before.cached[c]
  /\ (top.op = "set" /\ \A e \in Effects : ~Registered(e)) =>
       \A c \in Computeds : Calculations(c) = 0

C6_Step ==
  \A c \in Computeds :
    computations'[c] # computations[c] =>
      /\ Running("get", "call")
      /\ Top.self = c
      /\ isStale[c]
      /\ computations'[c] = computations[c] + 1

C6_LazyAndCached == []C6_State /\ [][C6_Step]_vars

C6_Witness ==
  /\ Idle
  /\ trace = << [op |-> "get", target |-> "lengthSum"],
               [op |-> "get", target |-> "lengthSum"],
               [op |-> "set", target |-> "a"] >>
  /\ computations["lengthSum"] = 1
  /\ cached["lengthSum"] = InitialValue + InitialValue
  /\ isStale["lengthSum"]

----------------------------------------------------------------------------
\* C7: invalidation is not accumulated: a top-level get() of computed c made
\* after k >= 1 set calls on its upstream signals with no get() of c in
\* between invokes c's callback exactly once, and a get() of an already
\* computed c with no such write since its last get() invokes it zero times.
C7_InvalidationNotAccumulated ==
  \A c \in Computeds :
    (Idle /\ top.op = "get" /\ top.target = c) =>
      /\ before.writesSinceGet[c] >= 1 => Calculations(c) = 1
      /\ (before.writesSinceGet[c] = 0 /\ before.computations[c] > 0) =>
           Calculations(c) = 0

C7_Witness ==
  /\ Idle
  /\ trace = << [op |-> "get", target |-> "double"], [op |-> "set", target |-> "a"],
               [op |-> "set", target |-> "a"], [op |-> "get", target |-> "double"] >>
  /\ before.writesSinceGet["double"] = 2
  /\ Calculations("double") = 1
  /\ computations["double"] = 2

C7_WitnessSecondGet ==
  /\ Idle
  /\ trace = << [op |-> "set", target |-> "b"], [op |-> "set", target |-> "a"],
               [op |-> "get", target |-> "lengthSum"],
               [op |-> "get", target |-> "lengthSum"] >>
  /\ computations["lengthSum"] = 1

----------------------------------------------------------------------------
\* C8: between the calls of the top-level program every computed that is not
\* stale caches its callback applied to the current values of its upstream
\* cells, and a top-level get() of a computed returns that value.
C8_DerivedValueCorrect ==
  Idle =>
    /\ \A c \in Computeds : ~isStale[c] => cached[c] = Eval(c, value)
    /\ (top.op = "get" /\ top.target \in Computeds) =>
         top.ret = Eval(top.target, value)

C8_Witness ==
  /\ Idle
  /\ trace = << [op |-> "get", target |-> "d"], [op |-> "set", target |-> "a"],
               [op |-> "get", target |-> "double"], [op |-> "get", target |-> "c"] >>
  /\ value["a"] = 3
  /\ top.ret = 8
  /\ isStale["d"]

C8_WitnessTwoSignals ==
  /\ Idle
  /\ trace = << [op |-> "get", target |-> "lengthSum"], [op |-> "set", target |-> "b"],
               [op |-> "get", target |-> "lengthSum"] >>
  /\ top.ret = InitialValue + 5

----------------------------------------------------------------------------
\* C9: an effect whose body reads one computed, itself computed from
\* signals, and nothing else is a subscriber of it once effect() has
\* returned, whether the get() found the computed fresh or stale; a set on an
\* upstream signal re-invokes it exactly once before set returns, and that
\* run observes the computed's callback applied to the written value.
ReadsOnlyComputeds(e) ==
  /\ Len(body(e)) = 1
  /\ \A x \in Range(body(e)) : x \in Computeds /\ Range(body(x)) \subseteq Signals

C9_EffectOnComputed ==
  \A e \in Effects :
    (ReadsOnlyComputeds(e) /\ Registered(e)) =>
      /\ Idle => \A x \in Range(body(e)) : e \in Range(dependencies[x])
      /\ (top.op = "set" /\ top.target \in Upstream(e)) =>
           /\ Runs(e) <= 1
           /\ Idle =>
                /\ Runs(e) = 1
                /\ value[top.target] = top.arg
                /\ Last(seen[e]) = Eval(e, value)

C9_Witness ==
  /\ Idle
  /\ trace = << [op |-> "get", target |-> "double"], [op |-> "effect", target |-> "E4"],
               [op |-> "set", target |-> "a"], [op |-> "set", target |-> "a"] >>
  /\ seen["E4"] = <<2, 6, 10>>

C9_WitnessStalePath ==
  /\ Idle
  /\ trace = << [op |-> "effect", target |-> "E4"], [op |-> "set", target |-> "a"] >>
  /\ seen["E4"] = <<2, 10>>

----------------------------------------------------------------------------
\* C10: diamond: a top-level get() of a stale computed whose callback reads
\* two computeds invokes the callback of each of the two at most once, and
\* exactly once when that one was stale, on the first read as on the read
\* that follows a write.
Diamond(c) == c \in Computeds /\ Len(body(c)) = 2 /\ Range(body(c)) \subseteq Computeds

C10_DiamondComputesOnce ==
  \A c \in Computeds :
    (Diamond(c) /\ top.op = "get" /\ top.target = c /\ before.isStale[c]) =>
      \A x \in Range(body(c)) :
        /\ Calculations(x) <= 1
        /\ Idle => Calculations(x) = IF before.isStale[x] THEN 1 ELSE 0

C10_Witness ==
  /\ Idle
  /\ trace = << [op |-> "get", target |-> "diff"], [op |-> "set", target |-> "a"],
               [op |-> "get", target |-> "diff"] >>
  /\ Calculations("double") = 1
  /\ Calculations("plus2") = 1
  /\ computations["diff"] = 2
  /\ top.ret = 5 * 2 - (5 + 2)

C10_WitnessChain ==
  /\ Idle
  /\ trace = << [op |-> "get", target |-> "d"], [op |-> "set", target |-> "a"],
               [op |-> "get", target |-> "d"] >>
  /\ Calculations("double") = 1
  /\ Calculations("c") = 1
  /\ top.ret = -2

----------------------------------------------------------------------------
\* C11: in no invocation of an effect's callback does the callback read from
\* a computed a value other than the computed's callback applied to the
\* values the signals hold during that invocation; so for an effect that
\* reads a signal together with a computed of it (E5), and for one that reads
\* two computeds of one signal (E6).
ValuesRead(f) ==
  {k \in 1..Len(f.acc) :
     body(f.self)[k] \in Cells /\ reads(f.self, k, SubSeq(f.acc, 1, k - 1))}

Consistent(f) ==
  \A k \in ValuesRead(f) : f.acc[k] = Eval(body(f.self)[k], value)

C11_GlitchFree ==
  \A n \in 1..Len(frames) : frames[n].fn = "callback" => Consistent(frames[n])

----------------------------------------------------------------------------
\* The view has been mounted: its first render is done.
Mounted(v) == ~firstRender[v]

\* The content the render function of v makes of the current values.
Rendered(v) == toInnerHTML(Eval(v, value))

\* C12: when createApp(component, root) returns, root.innerHTML is the
\* render function's output for the current values, no microtask was needed
\* for it, and renderApp is a subscriber of every cell the render function
\* read.
C12_FirstRenderSynchronous ==
  \A v \in Views :
    (Idle /\ top.op = "createApp" /\ top.target = v /\ top.arg # 0
       /\ Last(trace).op = "createApp") =>
      /\ top.ret # thrown
      /\ Mounted(v)
      /\ innerHTML[v] = Rendered(v)
      /\ microtasks = before.microtasks
      /\ \A x \in Range(body(v)) : v \in Range(dependencies[x])

C12_Witness ==
  /\ Idle
  /\ trace = << [op |-> "set", target |-> "a"], [op |-> "createApp", target |-> "Counter"] >>
  /\ top.arg # 0
  /\ innerHTML["Counter"] = <<"Count is", 3, "and double is", 6>>
  /\ dependencies["a"] = <<"Counter", "double">>
  /\ dependencies["double"] = <<"Counter">>

C12_WitnessArray ==
  /\ Idle
  /\ trace = << [op |-> "createApp", target |-> "Ducks"] >>
  /\ top.arg # 0
  /\ innerHTML["Ducks"] = <<span>>

----------------------------------------------------------------------------
\* C13: from the moment set is called on a signal a mounted view reads until
\* the microtask queue is drained, root.innerHTML holds what it held when
\* set was called: set changes no mount target, and neither does anything
\* before the drain.
InSet == ~Idle /\ frames[1].fn = "set"
Undrained == Idle /\ microtasks # <<>>

C13_NoSynchronousRender ==
  /\ (top.op = "set" /\ (InSet \/ Undrained)) => innerHTML = before.innerHTML
  /\ \A v \in Views :
       (Idle /\ top.op = "set" /\ Mounted(v) /\ top.target \in Upstream(v)
          /\ Last(trace).op = "set") => Undrained

C13_Witness ==
  /\ Undrained
  /\ trace = << [op |-> "createApp", target |-> "Counter"], [op |-> "set", target |-> "a"] >>
  /\ value["a"] = 3
  /\ innerHTML["Counter"] = <<"Count is", InitialValue, "and double is", 2 * InitialValue>>

----------------------------------------------------------------------------
\* C14: once the microtask queue has drained, the root.innerHTML of a mounted
\* view is the render function's output for the current values, each
\* computed recomputed from them, after one write as after several writes
\* made before the drain.
Drained == Idle /\ microtasks = <<>>

C14_WitnessOneWrite ==
  /\ Drained
  /\ trace = << [op |-> "createApp", target |-> "Ducks"], [op |-> "set", target |-> "a"],
               [op |-> "drain", target |-> "host"] >>
  /\ innerHTML["Ducks"] = <<span, span, span>>

----------------------------------------------------------------------------
\* C17: createApp(component, null) raises 'Root element not found' before
\* the component function is invoked: while the call executes and once it
\* has raised, no component function has been invoked by it, no subscriber
\* set, no stack entry, no queued microtask and no mount target differs from
\* what it was when createApp was called, and no effect is being run.
NoRoot == top.op = "createApp" /\ top.arg = 0 /\ Last(trace).op = "createApp"

C17_MissingRootFailsFast ==
  NoRoot =>
    /\ componentCalls = before.componentCalls
    /\ dependencies = before.dependencies
    /\ stack = before.stack
    /\ microtasks = before.microtasks
    /\ innerHTML = before.innerHTML
    /\ \A n \in 1..Len(frames) : frames[n].fn = "createApp"
    /\ Idle => top.ret = thrown

C17_Witness ==
  /\ Idle
  /\ NoRoot
  /\ top.ret = thrown
  /\ trace = << [op |-> "createApp", target |-> "Counter"], [op |-> "set", target |-> "a"],
               [op |-> "createApp", target |-> "Counter"] >>
  /\ microtasks = <<"Counter", "Counter">>

C17_WitnessNeverMounted ==
  /\ Idle
  /\ NoRoot
  /\ top.ret = thrown
  /\ trace = << [op |-> "createApp", target |-> "App"] >>
  /\ componentCalls["App"] = 0

----------------------------------------------------------------------------
\* C15: when an effect's callback raises, in the run effect() makes or in a
\* run a set makes, the stack is after the error what it was when the
\* top-level call began; and a signal read by the top-level program adds no
\* subscriber.
Raised == Idle /\ top.ret = thrown

C15_StackReleasedOnError ==
  /\ (Raised /\ top.op \in {"effect", "set"}) => stack = before.stack
  /\ (top.op = "get" /\ top.target \in Signals) => dependencies = before.dependencies

----------------------------------------------------------------------------
\* C16: an effect that has read a cell during an invocation, a re-invocation
\* made by a write included, is a subscriber of that cell; and when a signal
\* is set that the effect reads given the current values of the other
\* signals, the effect has been re-invoked when set returns.
SubscribedToCellsRead(f) ==
  \A k \in ValuesRead(f) : f.self \in Range(dependencies[body(f.self)[k]])

ReadsNow(e, x) ==
  \E k \in 1..Len(body(e)) :
    /\ body(e)[k] = x
    /\ reads(e, k, [j \in 1..(k - 1) |-> Eval(body(e)[j], value)])

C16_DependenciesRediscovered ==
  /\ \A n \in 1..Len(frames) :
       frames[n].fn = "callback" => SubscribedToCellsRead(frames[n])
  /\ \A e \in Effects :
       (Idle /\ top.op = "set" /\ top.ret # thrown /\ before.seen[e] > 0
          /\ ReadsNow(e, top.target)) => Runs(e) >= 1

----------------------------------------------------------------------------
\* C18: pop() on an empty stack is reported as an error to its caller.
C18_PopOnEmptyIsError ==
  (top.op = "pop" /\ before.stack = <<>>) => top.ret = thrown

----------------------------------------------------------------------------
\* C19: in every state, the states in the middle of a set included, a
\* computed whose isStale is false holds in cached its callback applied to
\* the current values of the cells it reads; so the fresh path of get never
\* hands out a cached value that an upstream write has outdated.
Valid(c) == cached[c] = Eval(c, value)

C19_FreshCacheValid ==
  /\ \A c \in Computeds : ~isStale[c] => Valid(c)
  /\ \A n \in 1..Len(frames) :
       (frames[n].fn = "get" /\ frames[n].pc = "start" /\ fresh(frames[n].self)) =>
         Valid(frames[n].self)

----------------------------------------------------------------------------
\* C20: the callbacks one forEach of set or of markStale has invoked are
\* members the subscriber set had when the forEach began, each invoked once,
\* and all of them once the forEach is over.
Visited(f) == SubSeq(dependencies[f.self], 1, f.i - 1)

C20_PassRunsSnapshot ==
  \A n \in 1..Len(frames) :
    frames[n].pc = "forEach" =>
      /\ IsPrefix(Visited(frames[n]), frames[n].atStart)
      /\ NoDuplicates(Visited(frames[n]))
      /\ ~hasNext(dependencies[frames[n].self], frames[n].i) =>
           Visited(frames[n]) = frames[n].atStart

----------------------------------------------------------------------------
\* C21: a set invokes the subscribers of its signal in the order in which
\* they were first added: at every moment of the call, the effects it has
\* invoked so far are the first ones of the signal's subscribers, in order;
\* and a subscriber set only ever grows at its end, reads by members leave
\* the order as it is.
EffectsOf(set) == SelectSeq(set, LAMBDA cb : cb \in Effects)

InvokedInOrder(s) ==
  LET subscribers == EffectsOf(before.dependencies[s])
  IN  \A j, k \in 1..Len(subscribers) :
        (j < k /\ Runs(subscribers[k]) >= 1) => Runs(subscribers[j]) >= 1

C21_InsertionOrder ==
  /\ top.op = "set" => InvokedInOrder(top.target)
  /\ \A x \in Cells : IsPrefix(before.dependencies[x], dependencies[x])

C21_Witness ==
  /\ ~Idle
  /\ top.op = "set"
  /\ before.dependencies["a"] = <<"E2", "E3", "E1">>
  /\ Runs("E2") = 1
  /\ Runs("E3") = 1
  /\ Runs("E1") = 0
  /\ Top.fn = "callback"
  /\ Top.self = "E1"
  /\ Top.i = 2

C21_WitnessReadAgain ==
  /\ Idle
  /\ trace = << [op |-> "get", target |-> "double"], [op |-> "effect", target |-> "E1"],
               [op |-> "set", target |-> "a"], [op |-> "get", target |-> "double"] >>
  /\ dependencies["a"] = <<"double", "E1">>
  /\ Calculations("double") = 1

----------------------------------------------------------------------------
\* C22: every effect callback invoked by the forEach of s.set(v) reads from
\* s the value v, also when a callback invoked earlier by that forEach has
\* called set itself.
ObservesWritten(setFrame, f) ==
  \A k \in ValuesRead(f) : body(f.self)[k] = setFrame.self => f.acc[k] = setFrame.arg

C22_SameValueInPass ==
  \A n \in 1..(Len(frames) - 1) :
    (frames[n].fn = "set" /\ frames[n].pc = "forEach" /\ frames[n + 1].fn = "callback") =>
      ObservesWritten(frames[n], frames[n + 1])

----------------------------------------------------------------------------
\* C23: while a computed's callback runs, the top of the stack is the
\* computed's markStale, so the cells the callback reads get that markStale
\* as subscriber and not the effect or computed that called get; the caller
\* becomes a subscriber of the computed only, and is the top of the stack
\* again once get has returned.

\* The frames that have pushed an entry and not yet popped it.
HoldsEntry(f) ==
  \/ f.fn = "effect" /\ f.pc \in {"call", "pop"}
  \/ f.fn = "get" /\ f.pc \in {"call", "assign", "pop"}

EntriesHeld ==
  LET holders == SelectSeq(frames, HoldsEntry)
  IN  [k \in 1..Len(holders) |-> holders[k].self]

\* The frames whose reads are tracked: a computed's callback, and an
\* effect's callback in the run effect() makes.
Tracked(n) ==
  \/ frames[n].fn = "calculation"
  \/ frames[n].fn = "callback" /\ n > 1 /\ frames[n - 1].fn = "effect"

C23_RecomputationSubscribesMarkStale ==
  /\ stack = EntriesHeld
  /\ \A n \in 1..Len(frames) :
       Tracked(n) =>
         /\ n = Len(frames) => peek(stack) = frames[n].self
         /\ \A k \in ValuesRead(frames[n]) :
              frames[n].self \in Range(dependencies[body(frames[n].self)[k]])
  /\ \A x \in Cells : \A cb \in Range(dependencies[x]) : x \in Range(body(cb))

C23_Witness ==
  /\ ~Idle
  /\ Top.fn = "calculation"
  /\ Top.self = "double"
  /\ Top.acc = <<InitialValue>>
  /\ stack = <<"E4", "double">>
  /\ dependencies["a"] = <<"double">>
  /\ dependencies["double"] = <<>>

C23_WitnessReturned ==
  /\ ~Idle
  /\ Top.fn = "callback"
  /\ Top.self = "E4"
  /\ Top.acc = <<2 * InitialValue>>
  /\ stack = <<"E4">>
  /\ dependencies["a"] = <<"double">>
  /\ dependencies["double"] = <<"E4">>

----------------------------------------------------------------------------
\* C24: in a program without effects, a set invokes no computed's callback
\* and leaves every computed downstream of the signal stale when it returns,
\* the computeds that read other computeds included; a get of a computed
\* then invokes the callbacks of that computed and of the computeds it reads
\* only, and returns the value computed from the written value.
RECURSIVE ComputedsRead(_)
ComputedsRead(x) ==
  IF x \in Signals THEN {}
  ELSE {x} \cup UNION {ComputedsRead(body(x)[k]) : k \in 1..Len(body(x))}

NoEffects == prog.effects = {}

C24_StalenessWithoutComputing ==
  NoEffects =>
    /\ top.op = "set" =>
         /\ \A x \in Computeds : Calculations(x) = 0
         /\ Idle => \A x \in prog.computeds : top.target \in Upstream(x) => isStale[x]
    /\ (top.op = "get" /\ top.target \in Computeds) =>
         /\ \A y \in Computeds \ ComputedsRead(top.target) : Calculations(y) = 0
         /\ Idle => top.ret = Eval(top.target, value)

C24_Witness ==
  /\ Idle
  /\ trace = << [op |-> "get", target |-> "d"], [op |-> "set", target |-> "a"] >>
  /\ \A x \in {"double", "c", "d"} : isStale[x] /\ computations[x] = 1
  /\ cached["double"] = 2 * InitialValue

C24_WitnessGets ==
  /\ Idle
  /\ trace = << [op |-> "get", target |-> "d"], [op |-> "set", target |-> "a"],
               [op |-> "get", target |-> "double"], [op |-> "get", target |-> "d"] >>
  /\ value["a"] = 5
  /\ before.isStale = [x \in Computeds |-> x # "double"]
  /\ before.cached["double"] = 10
  /\ Calculations("double") = 0
  /\ top.ret = 10 - (10 + 2)

----------------------------------------------------------------------------
\* C25: when a computed's callback raises during get(), the stack is after
\* the error what it was when get() was called, the computed is still stale
\* and its cached value is the one it had.
C25_ComputedReleasedOnError ==
  \A c \in Computeds :
    (Raised /\ top.op = "get" /\ top.target = c) =>
      /\ stack = before.stack
      /\ isStale[c]
      /\ cached[c] = before.cached[c]

----------------------------------------------------------------------------
\* C26: when a subscriber raises during the forEach of s.set(v), the
\* subscribers that follow it are notified all the same: when the call is
\* over, every effect subscribed when set was called that does not raise
\* itself has run, and no computed downstream of s is fresh with a cached
\* value computed from the value s held before.
RaisesNow(e) == throws(e, [k \in 1..Len(body(e)) |-> Eval(body(e)[k], value)])

C26_FailingSubscriberSuppressesNothing ==
  (Idle /\ top.op = "set") =>
    /\ \A e \in Effects \cap Range(before.dependencies[top.target]) :
         ~RaisesNow(e) => Runs(e) >= 1
    /\ \A c \in prog.computeds :
         (top.target \in Upstream(c) /\ ~isStale[c]) => Valid(c)

----------------------------------------------------------------------------
\* C27: when effect(E12) is called in the running body of effect E11, E12 is
\* the top of the stack exactly while effect(E12) runs and E11 is the top
\* again when it has returned: the cell E11 reads after the nested call gets
\* E11 as subscriber and not E12, the cell E12 reads gets E12 and not E11.
C27_NestedEffectsLIFO ==
  /\ stack = EntriesHeld
  /\ \A n \in 1..Len(frames) :
       (Tracked(n) /\ n = Len(frames)) => peek(stack) = frames[n].self
  /\ \A x \in Cells : \A cb \in Range(dependencies[x]) : x \in Range(body(cb))
  /\ (Idle /\ top.op = "effect") =>
       /\ dependencies["b"] = <<"E11">>
       /\ dependencies["double"] = <<"E12">>

C27_Witness ==
  /\ ~Idle
  /\ top.op = "effect"
  /\ Top.fn = "callback"
  /\ Top.self = "E11"
  /\ Top.acc = <<InitialValue, undefined, InitialValue>>
  /\ stack = <<"E11">>
  /\ dependencies["a"] = <<"E11", "double">>
  /\ dependencies["b"] = <<"E11">>
  /\ dependencies["double"] = <<"E12">>
  /\ Len(seen["E12"]) = 1

C27_WitnessInner ==
  /\ ~Idle
  /\ top.op = "effect"
  /\ Top.fn = "callback"
  /\ Top.self = "E12"
  /\ Top.acc = <<2 * InitialValue>>
  /\ stack = <<"E11", "E12">>
  /\ dependencies["b"] = <<>>

----------------------------------------------------------------------------
\* C28: one set schedules at most one deferred render per mounted view, also
\* for a view that reads the signal and a computed of it.
Scheduled(v, queue) == Len(SelectSeq(queue, LAMBDA cb : cb = v))

C28_OneRenderPerWrite ==
  \A v \in Views :
    top.op = "set" => Scheduled(v, microtasks) <= Scheduled(v, before.microtasks) + 1

----------------------------------------------------------------------------
\* C29: a deferred render that has been scheduled is executed when the
\* queue drains, and the drain leaves the render output for the current
\* values in the mount target; until then nothing takes the render out of
\* the queue: the queue changes only by a closure queued at its end, or by
\* its first closure being invoked by the drain.
Queued == {v \in Views : \E k \in 1..Len(microtasks) : microtasks[k] = v}

NotCancelled ==
  \/ microtasks' = microtasks
  \/ \E v \in Views : microtasks' = Append(microtasks, v)
  \/ /\ microtasks # <<>>
     /\ microtasks' = Tail(microtasks)
     /\ frames' # <<>>
     /\ frames'[Len(frames')].fn = "microtask"
     /\ frames'[Len(frames')].self = Head(microtasks)

C29_ScheduledRenderRuns ==
  /\ \A v \in Views : (v \in Queued) ~> (Drained /\ innerHTML[v] = Rendered(v))
  /\ [][NotCancelled]_vars

C29_Witness ==
  /\ Drained
  /\ trace = << [op |-> "createApp", target |-> "Counter"], [op |-> "set", target |-> "a"],
               [op |-> "drain", target |-> "host"] >>
  /\ innerHTML["Counter"] = <<"Count is", 3, "and double is", 6>>
  /\ before.innerHTML["Counter"] = <<"Count is", InitialValue, "and double is", 2 * InitialValue>>

----------------------------------------------------------------------------
\* C30: the firstRender flag of a view changes once, from true to false, at
\* the end of the renderApp invocation that effect(renderApp) makes inside
\* createApp; every other invocation of renderApp takes the deferred branch:
\* the mount target is written by that first invocation and by queued
\* closures only.
FirstInvocation(v) ==
  /\ ~Idle
  /\ frames[1].fn = "createApp"
  /\ frames[1].self = v
  /\ Top.fn = "renderApp"
  /\ Top.self = v
  /\ firstRender[v]

FlagChangesOnce ==
  \A v \in Views :
    /\ firstRender'[v] # firstRender[v] =>
         FirstInvocation(v) /\ Top.pc = "done" /\ ~firstRender'[v]
    /\ innerHTML'[v] # innerHTML[v] =>
         \/ FirstInvocation(v) /\ Top.pc = "write"
         \/ Running("microtask", "write") /\ Top.self = v

InlineOnlyFirst ==
  \A n \in 1..Len(frames) :
    (frames[n].fn = "renderApp" /\ frames[n].pc # "start") =>
      /\ frames[1].fn = "createApp"
      /\ frames[1].self = frames[n].self
      /\ firstRender[frames[n].self]

C30_FirstRenderFlagOnce == []InlineOnlyFirst /\ [][FlagChangesOnce]_vars

C30_Witness ==
  /\ ~Idle
  /\ top.op = "set"
  /\ Top.fn = "renderApp"
  /\ Top.self = "Counter"
  /\ Top.pc = "start"
  /\ ~firstRender["Counter"]
  /\ microtasks = <<"Counter">>
  /\ frames[Len(frames) - 1].fn = "markStale"

----------------------------------------------------------------------------
\* C31: no step removes a callback from the subscriber set of a signal or of
\* a computed: after every step each subscriber set contains every callback
\* it contained before the step.
Grows == \A x \in Cells : Range(dependencies[x]) \subseteq Range(dependencies'[x])

C31_SubscribersMonotone == [][Grows]_vars

C31_Witness ==
  /\ Drained
  /\ Len(trace) = 4
  /\ Last(trace).op = "drain"
  /\ Range(dependencies["a"]) = {"Counter", "double", "E1"}
  /\ Range(dependencies["double"]) = {"Counter"}
  /\ value["a"] # InitialValue

----------------------------------------------------------------------------
\* The variant of the library defined in src/src/4-rendering.test.ts
\* (lines 34-169).  Each of its functions is an operator from the state of
\* the engine before the call to the state after it; a call that returns a
\* value gives a record of the state and the value.

\* The engine's state as one record.
Engine ==
  [value |-> value, dependents |-> dependencies, cached |-> cached,
   isStale |-> isStale, stack |-> stack, seen |-> seen,
   computations |-> computations, firstRender |-> firstRender,
   innerHTML |-> innerHTML, microtasks |-> microtasks]

\* Faulty variant: no value is identical to the stored one.
neverSame(value_, newValue) == FALSE

\* Object.is(value, newValue), for the numbers the programs write.
same(value_, newValue) == value_ = newValue

\* Faulty variant: the pass iterates the first entry of the Set only.
firstOf(dependents) == IF dependents = <<>> THEN <<>> ELSE <<Head(dependents)>>

\* [...dependents]: the entries the Set has at this moment, in order.
spread(dependents) == dependents

RECURSIVE get(_, _), trackAndCalculate(_, _), calls(_, _, _, _)
RECURSIVE effectWrapper(_, _), markStale(_, _), forEach(_, _, _)

\* const currentEffect = peek(); if (currentEffect) dependents.add(currentEffect)
tracked(st, x) ==
  IF peek(st.stack) # noEffect
    THEN [st EXCEPT !.dependents[x] = SetAdd(@, peek(st.stack))]
    ELSE st

\* signal.get (37-47) and computed.get (108-120).
get(st, x) ==
  LET t == tracked(st, x)
  IN  IF x \in Signals THEN [st |-> t, ret |-> t.value[x]]
      ELSE IF t.isStale[x]
        THEN LET u == trackAndCalculate(t, x) IN [st |-> u, ret |-> u.cached[x]]
        ELSE [st |-> t, ret |-> t.cached[x]]

\* The body of callback cb from its i-th read on: the reads it makes and the
\* values they return.
calls(st, cb, i, acc) ==
  IF i > Len(body(cb)) THEN [st |-> st, acc |-> acc]
  ELSE IF ~reads(cb, i, acc) THEN calls(st, cb, i + 1, Append(acc, undefined))
  ELSE LET r == get(st, body(cb)[i])
       IN  calls(r.st, cb, i + 1, Append(acc, r.ret))

\* trackAndCalculate (96-105): the calculations of the programs run here
\* raise no error, so `finally` is the statement after the calculation.
trackAndCalculate(st, c) ==
  LET pushed == [st EXCEPT !.stack = push(@, c)]
      r == calls(pushed, c, 1, <<>>)
  IN  [r.st EXCEPT !.cached[c] = result(c, r.acc),
                   !.computations[c] = @ + 1,
                   !.stack = pop(@),
                   !.isStale[c] = FALSE]

\* renderApp (142-162), v's closure over firstRender and root.
renderApp(st, v) ==
  IF st.firstRender[v]
    THEN LET r == calls(st, v, 1, <<>>)
         IN  [r.st EXCEPT !.innerHTML[v] = result(v, r.acc).html,
                          !.firstRender[v] = FALSE]
    ELSE [st EXCEPT !.microtasks = Append(@, v)]

\* effectWrapper (67-75) of an effect's callback or of a renderApp; the
\* callbacks of the programs run here raise no error.
effectWrapper(st, cb) ==
  LET pushed == [st EXCEPT !.stack = push(@, cb)]
      called == IF cb \in Views THEN renderApp(pushed, cb)
                ELSE LET r == calls(pushed, cb, 1, <<>>)
                     IN  [r.st EXCEPT !.seen[cb] = Append(@, result(cb, r.acc))]
  IN  [called EXCEPT !.stack = pop(@)]

\* [...dependents].forEach((effect) => effect()) from the i-th entry on: a
\* subscriber is the markStale of a computed or an effectWrapper.
forEach(st, array, i) ==
  IF i > Len(array) THEN st
  ELSE LET cb == array[i]
           called == IF cb \in Computeds THEN markStale(st, cb) ELSE effectWrapper(st, cb)
       IN  forEach(called, array, i + 1)

\* markStale (90-94)
markStale(st, c) ==
  LET stale == [st EXCEPT !.isStale[c] = TRUE]
  IN  forEach(stale, spread(stale.dependents[c]), 1)

\* signal.set (48-58)
set(st, s, newValue) ==
  IF same(st.value[s], newValue) THEN st
  ELSE LET assigned == [st EXCEPT !.value[s] = newValue]
       IN  forEach(assigned, spread(assigned.dependents[s]), 1)

\* effect (66-78)
effect(st, callback) == effectWrapper(st, callback)

\* createApp (131-169): component() sets up a render function and a
\* renderApp with firstRender = true, then effect(renderApp).
createApp(st, v) == effect([st EXCEPT !.firstRender[v] = TRUE], v)

\* vi.runAllTicks(): the queued closures run in order,
\* each `root.innerHTML = render()`.
RECURSIVE runAllTicks(_)
runAllTicks(st) ==
  IF st.microtasks = <<>> THEN st
  ELSE LET v == Head(st.microtasks)
           r == calls([st EXCEPT !.microtasks = Tail(@)], v, 1, <<>>)
       IN  runAllTicks([r.st EXCEPT !.innerHTML[v] = result(v, r.acc).html])

\* A top-level call of the variant, from the state before it to the state
\* st after it.
VariantCall(op, target, arg, ret, st) ==
  /\ ops < MaxOps
  /\ ops' = ops + 1
  /\ top' = [op |-> op, target |-> target, arg |-> arg, ret |-> ret]
  /\ before' = Snapshot
  /\ trace' = Append(trace, [op |-> op, target |-> target])
  /\ value' = st.value
  /\ dependencies' = st.dependents
  /\ cached' = st.cached
  /\ isStale' = st.isStale
  /\ stack' = st.stack
  /\ seen' = st.seen
  /\ computations' = st.computations
  /\ firstRender' = st.firstRender
  /\ innerHTML' = st.innerHTML
  /\ microtasks' = st.microtasks
  /\ UNCHANGED <<prog, frames>>

VariantEffect(e) ==
  /\ e \in prog.effects
  /\ ~Registered(e)
  /\ VariantCall("effect", e, 0, undefined, effect(Engine, e))
  /\ registeredAt' = [registeredAt EXCEPT ![e] = [s \in Signals |-> Len(written[s])]]
  /\ UNCHANGED <<written, writesSinceGet, componentCalls>>

VariantSet(s, v) ==
  /\ s \in prog.signals
  /\ v \in prog.vals
  /\ VariantCall("set", s, v, undefined, set(Engine, s, v))
  /\ written' = [written EXCEPT ![s] = Append(@, v)]
  /\ UNCHANGED <<registeredAt, writesSinceGet, componentCalls>>

VariantGet(x) ==
  /\ x \in prog.signals \cup prog.computeds
  /\ LET r == get(Engine, x) IN VariantCall("get", x, 0, r.ret, r.st)
  /\ UNCHANGED <<written, registeredAt, writesSinceGet, componentCalls>>

VariantCreateApp(v) ==
  /\ v \in prog.views
  /\ componentCalls[v] = 0
  /\ VariantCall("createApp", v, 1, undefined, createApp(Engine, v))
  /\ componentCalls' = [componentCalls EXCEPT ![v] = @ + 1]
  /\ UNCHANGED <<written, registeredAt, writesSinceGet>>

VariantRunAllTicks ==
  /\ microtasks # <<>>
  /\ LET st == runAllTicks(Engine)
     IN  /\ innerHTML' = st.innerHTML
         /\ microtasks' = st.microtasks
         /\ dependencies' = st.dependents
         /\ cached' = st.cached
         /\ isStale' = st.isStale
         /\ computations' = st.computations
         /\ stack' = st.stack
  /\ trace' = Append(trace, [op |-> "drain", target |-> "host"])
  /\ UNCHANGED <<prog, value, frames, ops, top, before, written, seen, registeredAt,
                 writesSinceGet, firstRender, componentCalls>>

\* The programs of the variant: effects and views that raise no error and
\* write no signal, among them effects whose reads depend on a value read.
VariantPrograms ==
  { [signals |-> {"a"}, computeds |-> {"double"}, effects |-> {"E1", "E4"},
     views |-> {}, vals |-> {3, 5}],
    [signals |-> {"a"}, computeds |-> {"double"}, effects |-> {"E13"},
     views |-> {}, vals |-> {3, 5}],
    [signals |-> {"a", "b"}, computeds |-> {}, effects |-> {"E7"},
     views |-> {}, vals |-> {3, 5}],
    [signals |-> {"a"}, computeds |-> {"double", "c", "d"}, effects |-> {},
     views |-> {}, vals |-> {3}],
    [signals |-> {"a"}, computeds |-> {}, effects |-> {}, views |-> {"App"},
     vals |-> {3}],
    [signals |-> {"a"}, computeds |-> {"double"}, effects |-> {"E1"},
     views |-> {"Counter"}, vals |-> {3, 5}] }

InitVariant == Start(VariantPrograms)

NextVariant ==
  \/ \E e \in Effects : VariantEffect(e)
  \/ \E s \in Signals, v \in Vals : VariantSet(s, v)
  \/ \E x \in Cells : VariantGet(x)
  \/ \E v \in Views : VariantCreateApp(v)
  \/ VariantRunAllTicks

SpecVariant == InitVariant /\ [][NextVariant]_vars

\* C32: in the variant a set whose new value is identical to the stored one
\* changes nothing: the value, the subscriber sets, the caches, the staleness
\* flags, the effects' observations and the queue of renders are what they
\* were; a set with another value stores it and notifies every subscriber the
\* signal had when the set began.
Notified(cb) ==
  CASE cb \in Effects -> Len(seen'[cb]) > Len(seen[cb])
    [] cb \in Computeds -> isStale'[cb] \/ computations'[cb] > computations[cb]
    [] cb \in Views -> Len(microtasks') > Len(microtasks)

SetCalled == ops' = ops + 1 /\ top'.op = "set"

IdenticalIsNoOp ==
  SetCalled =>
    IF top'.arg = value[top'.target]
      THEN UNCHANGED <<value, dependencies, cached, isStale, stack, seen, computations,
                       dom>>
      ELSE /\ value'[top'.target] = top'.arg
           /\ \A k \in 1..Len(dependencies[top'.target]) :
                Notified(dependencies[top'.target][k])

C32_IdenticalSetIsNoOp == [][IdenticalIsNoOp]_vars

C32_Witness ==
  /\ trace = << [op |-> "createApp", target |-> "Counter"], [op |-> "effect", target |-> "E1"],
               [op |-> "set", target |-> "a"], [op |-> "set", target |-> "a"] >>
  /\ written["a"] = <<3, 3>>
  /\ seen["E1"] = <<InitialValue, 3>>
  /\ microtasks = <<"Counter", "Counter">>
  /\ isStale["double"]
  /\ before.microtasks = <<"Counter", "Counter">>

C32_WitnessChanged ==
  /\ trace = << [op |-> "effect", target |-> "E13"], [op |-> "set", target |-> "a"] >>
  /\ seen["E13"] = <<InitialValue, 9>>
  /\ dependencies["a"] = <<"E13", "double">>
  /\ ~isStale["double"]

----------------------------------------------------------------------------
\* C33: a computed notifies its subscribers only when its cached value
\* becomes stale: a set makes every fresh computed downstream of the signal
\* stale (or recomputed by a subscriber), and a markStale call that finds
\* its computed already stale invokes no subscriber.
\* The markStale call of frame n found its computed stale: it was stale when
\* the top-level call began and no computation has made it fresh since.
FoundStale(n) ==
  /\ frames[n].fn = "markStale"
  /\ before.isStale[frames[n].self]
  /\ Calculations(frames[n].self) = 0

\* A subscriber invoked by the forEach of frame n is executing.
Notifying(n) == frames[n].pc = "forEach" /\ n < Len(frames)

BecomesStale ==
  (Idle /\ top.op = "set") =>
    \A x \in prog.computeds :
      (~before.isStale[x] /\ top.target \in Upstream(x)) =>
        isStale[x] \/ Calculations(x) >= 1

StaleNotifiesNobody == \A n \in 1..Len(frames) : FoundStale(n) => ~Notifying(n)

C33_NotifiesOnlyOnBecomingStale == BecomesStale /\ StaleNotifiesNobody

----------------------------------------------------------------------------
\* C34: a callback is a subscriber of a cell only if its own body reads the
\* cell (for a markStale, the callback of its computed; for a renderApp, its
\* render function): a read made by a subscriber that a write invoked is not
\* attributed to the computation that made the write.
ReadsCell(cb, x) == \E i \in 1..Len(body(cb)) : body(cb)[i] = x

\* The program has no callback that raises an error.
NeverRaises ==
  \A cb \in prog.effects \cup prog.computeds :
    \A v \in Vals \cup {InitialValue} : ~throws(cb, <<v>>)

C34_AttributionSound ==
  NeverRaises =>
    \A x \in Cells : \A cb \in Range(dependencies[x]) : ReadsCell(cb, x)

----------------------------------------------------------------------------
\* C35: when no function of the library is executing (between the top-level
\* calls of get, set, effect and createApp) and when a queued render begins,
\* the stack of active effects is empty, in a program none of whose
\* callbacks raises an error.
AtMicrotaskStart == Running("microtask", "start")

C35_StackEmptyAtIdle == NeverRaises => ((Idle \/ AtMicrotaskStart) => stack = <<>>)

C35_Witness ==
  /\ AtMicrotaskStart
  /\ stack = <<>>
  /\ trace = << [op |-> "createApp", target |-> "Counter"], [op |-> "effect", target |-> "E1"],
               [op |-> "set", target |-> "a"], [op |-> "drain", target |-> "host"] >>
  /\ microtasks = <<"Counter">>
  /\ isStale["double"]

----------------------------------------------------------------------------
\* C36: a render that runs from the microtask queue subscribes nothing: a
\* renderApp enters a subscriber set only while the first render, made
\* inside createApp, is executing; hence a set queues a render of a view
\* exactly when the view's renderApp is reachable from the written signal
\* through the subscriber sets the first render made.
FirstRenderRuns(v) ==
  /\ ~Idle
  /\ frames[1].fn = "createApp"
  /\ frames[1].self = v
  /\ firstRender[v]

SubscribedInFirstRender ==
  \A v \in Views : \A x \in Cells :
    (v \in Range(dependencies'[x]) /\ v \notin Range(dependencies[x])) => FirstRenderRuns(v)

\* renderApp v is called when x changes: it is a subscriber of x or of a
\* computed whose markStale x calls.
RECURSIVE Reaches(_, _)
Reaches(x, v) ==
  \/ v \in Range(dependencies[x])
  \/ \E c \in Range(dependencies[x]) \cap Computeds : Reaches(c, v)

Count(seq, v) == Len(SelectSeq(seq, LAMBDA m : m = v))

SchedulesSubscribedOnly ==
  (Idle /\ top.op = "set" /\ Last(trace).op = "set") =>
    \A v \in Views :
      Count(microtasks, v) > Count(before.microtasks, v) <=> Reaches(top.target, v)

C36_DeferredRenderSubscribesNothing ==
  /\ []SchedulesSubscribedOnly
  /\ [][SubscribedInFirstRender]_vars

C36_Witness ==
  /\ Idle
  /\ trace = << [op |-> "createApp", target |-> "Details"], [op |-> "set", target |-> "a"],
               [op |-> "drain", target |-> "host"], [op |-> "set", target |-> "b"] >>
  /\ innerHTML["Details"] = <<"Count is", 3, "of", InitialValue>>
  /\ value["b"] = 3
  /\ dependencies["b"] = <<>>
  /\ microtasks = <<>>

----------------------------------------------------------------------------
\* C37: in a program whose callbacks write no signal, every set returns, and
\* the subscribers it invokes are bounded by the subscriber sets reachable
\* from the written signal: an effect runs, and a render is queued, once for
\* every path that leads from the signal to it through those sets (at most
\* once, when a callback raises an error).
NoWriters ==
  \A cb \in prog.effects \cup prog.computeds :
    \A v \in Vals \cup {InitialValue} : ~writes(cb, <<v>>)

\* The invocations of callbacks of class K that the entries k, k + 1, ... of
\* x's subscriber set account for.
RECURSIVE Invocations(_, _, _, _)
Invocations(deps, x, K, k) ==
  IF k > Len(deps[x]) THEN 0
  ELSE (IF deps[x][k] \in K THEN 1
        ELSE IF deps[x][k] \in Computeds THEN Invocations(deps, deps[x][k], K, 1)
        ELSE 0) + Invocations(deps, x, K, k + 1)

RECURSIVE TotalRuns(_)
TotalRuns(S) ==
  IF S = {} THEN 0
  ELSE LET e == CHOOSE e \in S : TRUE IN Runs(e) + TotalRuns(S \ {e})

RendersQueued == Len(microtasks) - Len(before.microtasks)

InvocationsBounded ==
  (NoWriters /\ top.op = "set" /\ Last(trace).op = "set") =>
    LET effects == Invocations(before.dependencies, top.target, Effects, 1)
        renders == Invocations(before.dependencies, top.target, Views, 1)
    IN  /\ TotalRuns(Effects) <= effects
        /\ RendersQueued <= renders
        /\ (Idle /\ NeverRaises) =>
             (TotalRuns(Effects) = effects /\ RendersQueued = renders)

C37_WriteTerminates ==
  /\ (NoWriters /\ InSet) ~> Idle
  /\ []InvocationsBounded

C37_Witness ==
  /\ Idle
  /\ trace = << [op |-> "createApp", target |-> "Counter"], [op |-> "effect", target |-> "E1"],
               [op |-> "set", target |-> "a"] >>
  /\ Runs("E1") = 1
  /\ RendersQueued = 2
  /\ Invocations(before.dependencies, "a", Views, 1) = 2

----------------------------------------------------------------------------
\* The shipped library run on programs that the variant accepts as well:
\* effects and string views that read a fixed set of cells, write no signal
\* and raise no error, mounted on an element that exists.

EquivalencePrograms ==
  { [signals |-> {"a"}, computeds |-> {"double"}, effects |-> {"E1", "E4", "E5"},
     views |-> {}, vals |-> {3, 5}],
    [signals |-> {"a"}, computeds |-> {"double", "plus2"}, effects |-> {"E6"},
     views |-> {}, vals |-> {3, 5}],
    [signals |-> {"a"}, computeds |-> {"double", "c", "d"}, effects |-> {},
     views |-> {}, vals |-> {3, 5}],
    [signals |-> {"a"}, computeds |-> {}, effects |-> {}, views |-> {"App"},
     vals |-> {3}],
    [signals |-> {"a"}, computeds |-> {"double"}, effects |-> {"E1"},
     views |-> {"Counter"}, vals |-> {3, 5}] }

InitEquivalence == Start(EquivalencePrograms)

NextEquivalence ==
  \/ Next
  \/ \E v \in Views : TopCreateApp(v, 1)
  \/ CreateAppComponent
  \/ CreateAppEffect
  \/ CreateAppReturn
  \/ RenderAppFirst
  \/ RenderAppWrite
  \/ RenderAppDone
  \/ RenderAppDefer
  \/ RenderReturn
  \/ DrainStart
  \/ DrainNext
  \/ DrainEnd
  \/ MicrotaskRender
  \/ MicrotaskWrite

SpecEquivalence == InitEquivalence /\ [][NextEquivalence]_vars

\* The variant's engine after construction of the program's cells.
InitialEngine ==
  [value |-> [s \in Signals |-> InitialValue],
   dependents |-> [x \in Cells |-> <<>>],
   cached |-> [x \in Computeds |-> undefined],
   isStale |-> [x \in Computeds |-> TRUE],
   stack |-> <<>>,
   seen |-> [e \in Effects |-> <<>>],
   computations |-> [x \in Computeds |-> 0],
   firstRender |-> [v \in Views |-> TRUE],
   innerHTML |-> [v \in Views |-> <<>>],
   microtasks |-> <<>>]

\* The variant's engine after the top-level calls k, k + 1, ... of the
\* trace, made from state st; n[s] counts the writes to s made before.
RECURSIVE Replay(_, _, _)
Replay(st, k, n) ==
  IF k > Len(trace) THEN st
  ELSE LET call == trace[k]
           s == call.target
       IN  CASE call.op = "effect" -> Replay(effect(st, s), k + 1, n)
             [] call.op = "get" -> Replay(get(st, s).st, k + 1, n)
             [] call.op = "createApp" -> Replay(createApp(st, s), k + 1, n)
             [] call.op = "drain" -> Replay(runAllTicks(st), k + 1, n)
             [] call.op = "set" ->
                  Replay(set(st, s, written[s][n[s] + 1]), k + 1,
                         [n EXCEPT ![s] = @ + 1])

\* C38: on a program whose effects and views read a fixed set of cells,
\* write nothing and raise nothing, and for writes that each change the
\* value, the shipped library and the variant of 4-rendering.test.ts agree
\* after every top-level call and every drain: each effect has been invoked
\* as often with the same values, each computed has been computed as often,
\* and the mount targets hold the same content.
FixedReads ==
  \A cb \in prog.effects \cup prog.computeds \cup prog.views :
    \A i \in 1..Len(body(cb)) : \A v \in Vals \cup {InitialValue} : reads(cb, i, <<v>>)

WellBehaved == FixedReads /\ NoWriters /\ NeverRaises

EachWriteChanges ==
  \A s \in Signals : \A k \in 1..Len(written[s]) :
    written[s][k] # (IF k = 1 THEN InitialValue ELSE written[s][k - 1])

C38_VariantsEquivalent ==
  (Idle /\ WellBehaved /\ EachWriteChanges) =>
    LET variant == Replay(InitialEngine, 1, [s \in Signals |-> 0])
    IN  /\ seen = variant.seen
        /\ computations = variant.computations
        /\ innerHTML = variant.innerHTML

EnginesEqual ==
  (Idle /\ WellBehaved /\ EachWriteChanges) =>
    Engine = Replay(InitialEngine, 1, [s \in Signals |-> 0])

C38_Witness ==
  /\ Drained
  /\ EachWriteChanges
  /\ trace = << [op |-> "createApp", target |-> "Counter"], [op |-> "set", target |-> "a"],
               [op |-> "drain", target |-> "host"], [op |-> "set", target |-> "a"],
               [op |-> "drain", target |-> "host"] >>
  /\ written["a"] = <<3, 5>>
  /\ innerHTML["Counter"] = <<"Count is", 5, "and double is", 10>>
  /\ computations["double"] = 3

====
